---- MODULE Spec2Model ----
(***************************************************************************)
(* Model of the derive(Builder) procedural macro (builder/src/lib.rs) and  *)
(* of the builder type it generates.                                       *)
(*                                                                         *)
(* Two layers are modelled:                                                *)
(*   - the generator: derive() turns a struct description (field names,   *)
(*     syntactic types, attributes) into AnnotatedFields and then into     *)
(*     four groups of generated fragments; it may panic;                   *)
(*   - the generated program: builder(), the setters and build() are       *)
(*     interpreted from the fragments the generator emitted.               *)
(*                                                                         *)
(* Option<X> is represented as a sequence: None is <<>>, Some(x) is <<x>>. *)
(* Vec<X> is represented as a sequence of its elements.                    *)
(***************************************************************************)
EXTENDS Integers, Sequences, FiniteSets, TLC

----------------------------------------------------------------------------
(* Bounds *)

\* total number of attributes written on the fields of one struct (generator runs)
MaxAttrs == 2
\* total number of attributes written on the fields of one struct (runs of the generated builder)
MaxRunAttrs == 1
\* number of setter / build calls made on one builder
MaxCalls == 4

----------------------------------------------------------------------------
(* Option and results of operations that may panic *)

None == <<>>
Some(x) == <<x>>
is_some(o) == o /= <<>>
is_none(o) == o = <<>>

Ok(v) == [panic |-> FALSE, val |-> v, msg |-> ""]
Panic(m) == [panic |-> TRUE, val |-> <<>>, msg |-> m]

----------------------------------------------------------------------------
(* Syntax of the input: types, attributes, fields *)

\* a generic argument between angle brackets
GType(id) == [k |-> "Type", id |-> id]
GLifetime(id) == [k |-> "Lifetime", id |-> id]

\* syn::Type: kind Path (qself, segments, first segment's ident and arguments) or anything else
PathType(qself, nsegs, ident, angle, gargs) ==
    [kind |-> "Path", qself |-> qself, nsegs |-> nsegs, ident |-> ident,
     angle |-> angle, gargs |-> gargs]

\* the type named by a generic argument
TypeOfArg(a) == PathType(FALSE, 1, a.id, FALSE, <<>>)

TString == PathType(FALSE, 1, "String", FALSE, <<>>)
TOption == PathType(FALSE, 1, "Option", TRUE, <<GType("T")>>)
TVec == PathType(FALSE, 1, "Vec", TRUE, <<GType("T")>>)
TStdVec == PathType(FALSE, 3, "std", FALSE, <<>>)
TTuple == [kind |-> "Other", qself |-> FALSE, nsegs |-> 0, ident |-> "",
           angle |-> FALSE, gargs |-> <<>>]
Types == {TString, TOption, TVec, TStdVec, TTuple}

\* syn::Attribute: #[path], #[path = v] or #[path(args)]; for a list, whether the
\* arguments parse as `key = value`, the key and the value
Attr(path, meta, nv, key, lit, s) ==
    [path |-> path, meta |-> meta, nv |-> nv, key |-> key, lit |-> lit, s |-> s]

\* #[builder(each = "s")]
AEach(s) == Attr("builder", "List", TRUE, "each", "Str", s)
\* #[builder(oops = "x")]
AOops == Attr("builder", "List", TRUE, "oops", "Str", "x")
\* #[builder(a::b = "x")]: the key is a path of two segments, not an identifier
APathKey == Attr("builder", "List", TRUE, "a::b", "Str", "x")
\* #[builder(each = 42)]
AEachInt == Attr("builder", "List", TRUE, "each", "Int", "42")
\* #[builder(each = name)]
AEachExpr == Attr("builder", "List", TRUE, "each", "NotLit", "name")
\* #[builder(oops)]: the arguments are not `key = value`
ANotNameValue == Attr("builder", "List", FALSE, "oops", "NotLit", "")
\* #[builder]
ABare == Attr("builder", "Path", FALSE, "", "NotLit", "")
\* #[doc = "text"]
ADoc == Attr("doc", "NameValue", FALSE, "", "Str", "text")

\* the strings that are identifiers: Path::get_ident yields one for them and
\* Ident::new accepts them
Idents == {"arg", "f", "g", "x", "each", "oops", "builder", "doc"}

GenAttrs == {AEach("arg"), AEach("f"), AEach("1x"), AOops, APathKey, AEachInt,
             AEachExpr, ANotNameValue, ABare, ADoc}

RunAttrs == {AEach("arg"), AEach("f"), AOops}

FieldNames == <<"f", "g">>

AttrLists(alphabet, n) == UNION {[1..k -> alphabet] : k \in 0..n}

Field(name, ty, attrs) == [name |-> name, ty |-> ty, attrs |-> attrs]

----------------------------------------------------------------------------
(* The attribute parser *)

\* the fixed text of the diagnostic
ExpectedEach == "expected builder(each = ...)"

get_ident(path) == IF path \in Idents THEN Some(path) ELSE None

\* outcome of one iteration of the loop over f.attrs: "next" (fall through to
\* the following attribute), "return" or "panic"
EachStep(a) ==
    IF get_ident(a.path) /= Some("builder") THEN [k |-> "next", r |-> <<>>]
    ELSE IF a.meta /= "List" THEN [k |-> "next", r |-> <<>>]
    ELSE IF ~a.nv THEN [k |-> "panic", r |-> <<>>]
    ELSE IF is_none(get_ident(a.key)) THEN [k |-> "next", r |-> <<>>]
    ELSE IF a.key = "each"
         THEN IF a.lit = "Str"
              THEN IF a.s \in Idents
                   THEN [k |-> "return", r |-> <<Some(a.s), None>>]
                   ELSE [k |-> "panic", r |-> <<>>]
              ELSE [k |-> "next", r |-> <<>>]
         ELSE [k |-> "return",
               r |-> <<None, Some([error |-> ExpectedEach, span |-> a])>>]

RECURSIVE EachFrom(_, _)
EachFrom(attrs, i) ==
    IF i > Len(attrs) THEN Ok(<<None, None>>)
    ELSE LET st == EachStep(attrs[i])
         IN IF st.k = "panic" THEN Panic("get_each_setter")
            ELSE IF st.k = "return" THEN Ok(st.r)
            ELSE EachFrom(attrs, i + 1)

\* (one_by_one_setter, parsed) of a field, or a panic
get_each_setter(f) == EachFrom(f.attrs, 1)

----------------------------------------------------------------------------
(* The field classifier *)

\* the first generic argument of the only segment, as get_option_type and
\* get_vec_type read it
FirstTypeArg(ty) ==
    IF Len(ty.gargs) = 0 THEN Panic("args has a generic argument")
    ELSE IF ty.gargs[1].k = "Type" THEN Ok(Some(TypeOfArg(ty.gargs[1])))
    ELSE Panic("not implemented")

get_option_type(field) ==
    LET ty == field.ty
    IN IF ty.kind = "Path" /\ ~ty.qself /\ ty.nsegs = 1 /\ ty.ident = "Option" /\ ty.angle
       THEN FirstTypeArg(ty)
       ELSE Ok(None)

get_vec_type(field) ==
    LET ty == field.ty
    IN IF ty.kind = "Path" /\ ~ty.qself /\ ty.nsegs = 1
       THEN IF ty.ident = "Vec"
            THEN IF ty.angle THEN FirstTypeArg(ty) ELSE Ok(None)
            ELSE Panic("Did not have a vec!")
       ELSE Ok(None)

\* impl From<&Field> for AnnotatedField
AnnotatedFieldFrom(field) ==
    LET opt_typ == get_option_type(field)
        each == get_each_setter(field)
        vec == get_vec_type(field)
    IN IF opt_typ.panic THEN opt_typ
       ELSE IF each.panic THEN each
       ELSE LET setter == each.val[1]
                parsed == each.val[2]
                mk(inner) == Ok([name |-> field.name, ty |-> field.ty,
                                 is_optional |-> is_some(opt_typ.val),
                                 one_by_one_setter |-> setter,
                                 inner_type |-> inner, parsed |-> parsed])
            IN IF is_some(opt_typ.val) THEN mk(opt_typ.val)
               ELSE IF is_some(setter)
                    THEN IF vec.panic THEN vec
                         ELSE IF is_none(vec.val) THEN Panic("unwrap on None")
                         ELSE mk(vec.val)
                    ELSE mk(None)

----------------------------------------------------------------------------
(* The fragments generated for one field *)

\* #name : std::option::Option<#ty>,
get_builder_declaration(af) == [name |-> af.name, ty |-> af.ty]

\* #name : Some(Vec::new()),  or  #name : None,
get_builder_initializer(af) ==
    [name |-> af.name,
     init |-> IF is_some(af.one_by_one_setter) THEN "SomeVecNew" ELSE "None"]

SetterFn(fn, field, param, body) ==
    [frag |-> "fn", fn |-> fn, field |-> field, param |-> param, body |-> body]

CompileError(d) ==
    [frag |-> "compile_error", fn |-> d.error, field |-> "", param |-> d.span,
     body |-> ""]

\* get_builder_setter with the name test of the bulk setter left out
get_builder_setter_always_bulk(af) ==
    IF is_some(af.parsed) THEN <<CompileError(af.parsed[1])>>
    ELSE (IF is_some(af.one_by_one_setter)
          THEN <<SetterFn(af.one_by_one_setter[1], af.name, af.inner_type[1], "push")>>
          ELSE <<>>)
         \o
         (IF af.is_optional
          THEN <<SetterFn(af.name, af.name, af.inner_type[1], "set_some_some")>>
          ELSE <<SetterFn(af.name, af.name, af.ty, "set_some")>>)

get_builder_setter(af) ==
    IF is_some(af.parsed) THEN <<CompileError(af.parsed[1])>>
    ELSE (IF is_some(af.one_by_one_setter)
          THEN <<SetterFn(af.one_by_one_setter[1], af.name, af.inner_type[1], "push")>>
          ELSE <<>>)
         \o
         (IF is_none(af.one_by_one_setter) \/ af.one_by_one_setter[1] /= af.name
          THEN IF af.is_optional
               THEN <<SetterFn(af.name, af.name, af.inner_type[1], "set_some_some")>>
               ELSE <<SetterFn(af.name, af.name, af.ty, "set_some")>>
          ELSE <<>>)

\* #name : if self.#name.is_some() { take().unwrap() } else { None },
\* or  #name : self.#name.take().unwrap(),
get_build_initializer(af) ==
    [name |-> af.name,
     read |-> IF af.is_optional THEN "take_or_none" ELSE "take_unwrap"]

----------------------------------------------------------------------------
(* The four groups of generated code *)

RECURSIVE Flatten(_)
Flatten(ss) == IF ss = <<>> THEN <<>> ELSE Head(ss) \o Flatten(Tail(ss))

create_builder_struct(afs) == [i \in 1..Len(afs) |-> get_builder_declaration(afs[i])]
create_builder_function(afs) == [i \in 1..Len(afs) |-> get_builder_initializer(afs[i])]
create_setter_fns(afs) == Flatten([i \in 1..Len(afs) |-> get_builder_setter(afs[i])])
create_build_fn(afs) == [i \in 1..Len(afs) |-> get_build_initializer(afs[i])]

NoOutput == [decl |-> <<>>, init |-> <<>>, setters |-> <<>>, build |-> <<>>]

----------------------------------------------------------------------------
(* The generated program: builder(), setters, build() *)

\* values passed to setters: whole vectors for a Vec parameter, opaque values otherwise
ElemValues == {1, 2}
VecValues == {<<>>, <<2, 1>>}
Values(ty) == IF ty.kind = "Path" /\ ty.nsegs = 1 /\ ty.ident = "Vec"
              THEN VecValues ELSE ElemValues

\* the generated code is accepted by the compiler: no compile_error! fragment,
\* no two setters of the same name, and Some(Vec::new()) / push only on a slot
\* whose declared type is a Vec
Compiles(out) ==
    /\ \A k \in 1..Len(out.setters) : out.setters[k].frag = "fn"
    /\ \A k, l \in 1..Len(out.setters) :
          out.setters[k].fn = out.setters[l].fn => k = l
    /\ \A i \in 1..Len(out.init) :
          out.init[i].init = "SomeVecNew" =>
             (out.decl[i].ty.kind = "Path" /\ out.decl[i].ty.ident = "Vec")

\* position of the slot of a field in the builder struct
SlotOf(out, name) == CHOOSE i \in 1..Len(out.decl) : out.decl[i].name = name

\* builder(): one slot per initializer
InitSlot(init) == IF init = "SomeVecNew" THEN Some(<<>>) ELSE None
NewBuilder(out) == [i \in 1..Len(out.init) |-> InitSlot(out.init[i].init)]

\* PushValue inserting at the front
PushValue_front(slot, v) ==
    IF is_none(slot) THEN Panic("unwrap on None") ELSE Ok(Some(<<v>> \o slot[1]))

\* self.#name.as_mut().unwrap().push(value)
PushValue(slot, v) ==
    IF is_none(slot) THEN Panic("unwrap on None") ELSE Ok(Some(Append(slot[1], v)))
\* self.#name = Some(value)
SetSome(slot, v) == Ok(Some(v))
\* SetSomeSome marking the slot as set without storing the value
SetSomeSome_absent(slot, v) == Ok(Some(None))

\* self.#name = Some(Some(value))
SetSomeSome(slot, v) == Ok(Some(Some(v)))

ApplySetter(st, slot, v) ==
    IF st.body = "push" THEN PushValue(slot, v)
    ELSE IF st.body = "set_some_some" THEN SetSomeSome(slot, v)
    ELSE SetSome(slot, v)

\* ReadOptional with the test of the slot inverted
ReadOptional_inverted(slot) ==
    IF is_none(slot) THEN Panic("unwrap on None") ELSE Ok(None)

\* if self.#name.is_some() { self.#name.take().unwrap() } else { None }
ReadOptional(slot) == IF is_some(slot) THEN Ok(slot[1]) ELSE Ok(None)
\* self.#name.take().unwrap()
ReadUnwrap(slot) == IF is_none(slot) THEN Panic("unwrap on None") ELSE Ok(slot[1])

\* the struct literal of build(): the initializers are evaluated in order,
\* each take() empties its slot; the first failing unwrap panics
RECURSIVE BuildFrom(_, _, _, _)
BuildFrom(out, i, slots, acc) ==
    IF i > Len(out.build) THEN [panic |-> FALSE, slots |-> slots, val |-> acc]
    ELSE LET b == out.build[i]
             j == SlotOf(out, b.name)
             r == IF b.read = "take_or_none" THEN ReadOptional(slots[j])
                  ELSE ReadUnwrap(slots[j])
             taken == [slots EXCEPT ![j] = None]
         IN IF r.panic THEN [panic |-> TRUE, slots |-> taken, val |-> <<>>]
            ELSE BuildFrom(out, i + 1, taken, Append(acc, r.val))

----------------------------------------------------------------------------
(* State *)

VARIABLES
    fields,            \* the named fields of the struct given to derive()
    pc,                \* "annotate", "panicked", "emitted", "running", "aborted"
    annotated_fields,  \* derive(): the AnnotatedFields pushed so far
    res,               \* derive(): the generated code
    self,              \* the builder: one slot per field (<<>> before builder())
    trace,             \* calls made on the builder since builder()
    ret                \* what the last call of build() did

vars == <<fields, pc, annotated_fields, res, self, trace, ret>>

NoRet == [tag |-> "none", val |-> <<>>]

\* derive() is given a struct of one or two named fields, with at most n
\* attributes of the alphabet in total
InitWith(alphabet, n) ==
    /\ \E t1 \in Types, a1 \in AttrLists(alphabet, n) :
          \/ fields = <<Field(FieldNames[1], t1, a1)>>
          \/ \E t2 \in Types, a2 \in AttrLists(alphabet, n - Len(a1)) :
                fields = <<Field(FieldNames[1], t1, a1), Field(FieldNames[2], t2, a2)>>
    /\ pc = "annotate"
    /\ annotated_fields = <<>>
    /\ res = NoOutput
    /\ self = <<>>
    /\ trace = <<>>
    /\ ret = NoRet

Init == InitWith(RunAttrs, MaxRunAttrs)
InitGen == InitWith(GenAttrs, MaxAttrs)

----------------------------------------------------------------------------
(* derive() *)

\* one iteration of `for f in &fields.named { annotated_fields.push(f.into()) }`
Annotate ==
    /\ pc = "annotate"
    /\ Len(annotated_fields) < Len(fields)
    /\ LET r == AnnotatedFieldFrom(fields[Len(annotated_fields) + 1])
       IN IF r.panic
          THEN pc' = "panicked" /\ UNCHANGED annotated_fields
          ELSE pc' = pc /\ annotated_fields' = Append(annotated_fields, r.val)
    /\ UNCHANGED <<fields, res, self, trace, ret>>

\* the four res.extend(...) calls and the return of derive()
Emit ==
    /\ pc = "annotate"
    /\ Len(annotated_fields) = Len(fields)
    /\ res' = [decl |-> create_builder_struct(annotated_fields),
               init |-> create_builder_function(annotated_fields),
               setters |-> create_setter_fns(annotated_fields),
               build |-> create_build_fn(annotated_fields)]
    /\ pc' = "emitted"
    /\ UNCHANGED <<fields, annotated_fields, self, trace, ret>>

----------------------------------------------------------------------------
(* The generated program *)

\* Target::builder()
CallBuilder ==
    /\ pc \in {"emitted", "running"}
    /\ Compiles(res)
    /\ self' = NewBuilder(res)
    /\ trace' = <<>>
    /\ ret' = NoRet
    /\ pc' = "running"
    /\ UNCHANGED <<fields, annotated_fields, res>>

\* builder.<setter>(value)
CallSetter ==
    /\ pc = "running"
    /\ Len(trace) < MaxCalls
    /\ \E k \in 1..Len(res.setters) :
         LET st == res.setters[k]
             j == SlotOf(res, st.field)
         IN \E v \in Values(st.param) :
              LET r == ApplySetter(st, self[j], v)
              IN /\ trace' = Append(trace, [fn |-> st.fn, arg |-> v])
                 /\ IF r.panic
                    THEN pc' = "aborted" /\ UNCHANGED self
                    ELSE pc' = pc /\ self' = [self EXCEPT ![j] = r.val]
    /\ UNCHANGED <<fields, annotated_fields, res, ret>>

\* builder.build()
CallBuild ==
    /\ pc = "running"
    /\ Len(trace) < MaxCalls
    /\ LET r == BuildFrom(res, 1, self, <<>>)
       IN /\ self' = r.slots
          /\ IF r.panic
             THEN pc' = "aborted" /\ ret' = [tag |-> "panic", val |-> <<>>]
             ELSE pc' = pc /\ ret' = [tag |-> "Some", val |-> r.val]
    /\ trace' = Append(trace, [fn |-> "build", arg |-> <<>>])
    /\ UNCHANGED <<fields, annotated_fields, res>>

NextGen == Annotate \/ Emit
Next == Annotate \/ Emit \/ CallBuilder \/ CallSetter \/ CallBuild

SpecGen == InitGen /\ [][NextGen]_vars
Spec == Init /\ [][Next]_vars

----------------------------------------------------------------------------
(* Vocabulary of the properties *)

NFields == Len(annotated_fields)

\* the categories of the specification, read off an AnnotatedField
IsRequired(af) == ~af.is_optional /\ is_none(af.one_by_one_setter)
IsCollection(af) == ~af.is_optional /\ is_some(af.one_by_one_setter)

\* the declared type is a single identifier Option / Vec with one type argument
IsOptionShape(ty) ==
    /\ ty.kind = "Path" /\ ~ty.qself /\ ty.nsegs = 1 /\ ty.ident = "Option"
    /\ ty.angle /\ Len(ty.gargs) = 1 /\ ty.gargs[1].k = "Type"
IsVecShape(ty) ==
    /\ ty.kind = "Path" /\ ~ty.qself /\ ty.nsegs = 1 /\ ty.ident = "Vec"
    /\ ty.angle /\ Len(ty.gargs) = 1 /\ ty.gargs[1].k = "Type"

\* #[builder(key = value)]
IsBuilderNameValue(a) == a.path = "builder" /\ a.meta = "List" /\ a.nv
HasEachKey(f) == \E k \in 1..Len(f.attrs) :
                    IsBuilderNameValue(f.attrs[k]) /\ f.attrs[k].key = "each"

\* the generated setters that write the slot of a field
SettersOfField(name) ==
    LET Test(st) == st.frag = "fn" /\ st.field = name IN SelectSeq(res.setters, Test)
Diagnostics == LET Test(st) == st.frag = "compile_error" IN SelectSeq(res.setters, Test)

Called(fn) == \E k \in 1..Len(trace) : trace[k].fn = fn
ArgsOf(fn) == LET Test(ev) == ev.fn = fn
                  sel == SelectSeq(trace, Test)
              IN [k \in 1..Len(sel) |-> sel[k].arg]
LastArgOf(fn) == ArgsOf(fn)[Len(ArgsOf(fn))]

\* build() has just returned or panicked, and it was the first build() on this builder
BuildJustCalled == Len(trace) > 0 /\ trace[Len(trace)].fn = "build"
FirstBuild == BuildJustCalled /\ \A k \in 1..(Len(trace) - 1) : trace[k].fn /= "build"
RequiredAllSet == \A j \in 1..NFields :
                     IsRequired(annotated_fields[j]) => Called(annotated_fields[j].name)

----------------------------------------------------------------------------
(* Properties of the generated builder (specification Spec) *)

\* C1: build() on a builder in which the setter of a Required field was never
\* called returns a failure value naming that field; it neither panics nor
\* returns a success value.
C1_MissingRequiredIsFailure ==
    \A i \in 1..NFields :
       (/\ BuildJustCalled
        /\ IsRequired(annotated_fields[i])
        /\ ~Called(annotated_fields[i].name))
       => (ret.tag = "Err" /\ ret.val = Some(annotated_fields[i].name))

\* C2: for a Collection field whose element setter e is not named like the
\* field, on a fresh builder with every Required field set and the bulk setter
\* never called, build() succeeds and the field is the sequence of the values
\* given to e, in call order (empty when e was never called).
C2_ElementSetterOrder ==
    \A i \in 1..NFields :
       LET af == annotated_fields[i] IN
       (/\ FirstBuild
        /\ IsCollection(af)
        /\ af.one_by_one_setter[1] /= af.name
        /\ ~Called(af.name)
        /\ RequiredAllSet)
       => (ret.tag = "Some" /\ ret.val[i] = ArgsOf(af.one_by_one_setter[1]))

\* a struct with a Required field that was set and a Collection field that
\* received two different values, built successfully
C2_Witness ==
    /\ FirstBuild /\ ret.tag = "Some" /\ NFields = 2
    /\ IsCollection(annotated_fields[1])
    /\ annotated_fields[1].one_by_one_setter[1] /= annotated_fields[1].name
    /\ IsRequired(annotated_fields[2])
    /\ ~Called(annotated_fields[1].name)
    /\ ret.val[1] = <<1, 2>>

\* C3: for an Optional field (Option<T>, no each attribute), on a fresh
\* builder with every Required field set, build() succeeds; the field is None
\* if its setter was never called and Some(v) if it was last called with v.
C3_OptionalRoundTrip ==
    \A i \in 1..NFields :
       LET af == annotated_fields[i] IN
       (/\ FirstBuild
        /\ IsOptionShape(fields[i].ty)
        /\ ~HasEachKey(fields[i])
        /\ RequiredAllSet)
       => /\ ret.tag = "Some"
          /\ ret.val[i] = IF Called(af.name) THEN Some(LastArgOf(af.name)) ELSE None

\* an Optional field set twice with different values beside a Required field
C3_Witness ==
    /\ FirstBuild /\ ret.tag = "Some" /\ NFields = 2
    /\ IsOptionShape(fields[1].ty) /\ ~HasEachKey(fields[1])
    /\ IsRequired(annotated_fields[2])
    /\ ArgsOf(annotated_fields[1].name) = <<1, 2>>
    /\ ret.val[1] = Some(2)

\* C8: in every state of a builder, whatever setters and build() calls were
\* made, the slot of every Collection field is present.
C8_CollectionSlotAlwaysPresent ==
    \A i \in 1..NFields :
       (pc \in {"running", "aborted"} /\ IsCollection(annotated_fields[i]))
       => is_some(self[i])

\* C10: in every state of a builder the slot of an Optional field is None or
\* Some(Some(v)); it is never Some(None).
C10_OptionalSlotNeverSomeNone ==
    \A i \in 1..NFields :
       (pc \in {"running", "aborted"} /\ IsOptionShape(fields[i].ty))
       => (self[i] = None \/ \E v \in ElemValues : self[i] = Some(Some(v)))

\* the setter of an Optional field was called, and an Optional slot was
\* emptied again by build()
C10_Witness ==
    /\ pc = "running" /\ NFields = 2
    /\ IsOptionShape(fields[1].ty) /\ IsOptionShape(fields[2].ty)
    /\ self[1] = Some(Some(1))
    /\ Called(annotated_fields[2].name) /\ Called("build") /\ self[2] = None

----------------------------------------------------------------------------
(* Properties of the generator (specification SpecGen) *)

\* #[builder(each = "name")] with a string literal that is an identifier
IsValidEach(a) ==
    IsBuilderNameValue(a) /\ a.key = "each" /\ a.lit = "Str" /\ a.s \in Idents
CarriesValidEach(f) == \E k \in 1..Len(f.attrs) : IsValidEach(f.attrs[k])
\* #[builder(key = value)] with a key other than each
IsWrongKey(a) == IsBuilderNameValue(a) /\ a.key /= "each"
CarriesWrongKey(f) == \E k \in 1..Len(f.attrs) : IsWrongKey(f.attrs[k])
\* #[builder(each = value)] with a value that is not a string literal
IsNonLiteralEach(a) == IsBuilderNameValue(a) /\ a.key = "each" /\ a.lit /= "Str"

\* every attribute of the struct reads #[builder(key = "identifier")]
IsWellFormed(a) == IsBuilderNameValue(a) /\ a.lit = "Str" /\ a.s \in Idents
AllWellFormed == \A j \in 1..Len(fields) :
                    \A k \in 1..Len(fields[j].attrs) : IsWellFormed(fields[j].attrs[k])

\* derive() panicked while converting field i
PanickedAt(i) == pc = "panicked" /\ Len(annotated_fields) = i - 1

\* the fragments of field j are those its own description yields
EmittedNormally(j) ==
    LET af == AnnotatedFieldFrom(fields[j]).val
    IN /\ res.decl[j] = get_builder_declaration(af)
       /\ res.init[j] = get_builder_initializer(af)
       /\ SettersOfField(fields[j].name) = get_builder_setter(af)
       /\ res.build[j] = get_build_initializer(af)

\* C4: when exactly one field carries a builder attribute whose key is not
\* each (all attributes of the struct being of the form key = "identifier"),
\* generation does not abort, the output holds exactly one diagnostic,
\* with the fixed message and anchored at that attribute, and every other
\* field is emitted as it would be without the faulty field.
C4_WrongKeyOneDiagnostic ==
    \A i \in 1..Len(fields) :
       (/\ AllWellFormed
        /\ CarriesWrongKey(fields[i])
        /\ \A j \in 1..Len(fields) : j /= i => ~CarriesWrongKey(fields[j]))
       => /\ pc /= "panicked"
          /\ pc = "emitted" =>
               /\ Len(Diagnostics) = 1
               /\ Diagnostics[1].fn = ExpectedEach
               /\ \E k \in 1..Len(fields[i].attrs) :
                     /\ IsWrongKey(fields[i].attrs[k])
                     /\ Diagnostics[1].param = fields[i].attrs[k]
               /\ \A j \in 1..Len(fields) : j /= i => EmittedNormally(j)

\* C5: a field with a valid each attribute (and no other attribute) whose declared type is neither a
\* Vec<T> nor an Option<T> gets a diagnostic fragment, and the generator does
\* not panic on it.
C5_TypeShapeIsDiagnostic ==
    \A i \in 1..Len(fields) :
       (/\ CarriesValidEach(fields[i])
        /\ \A k \in 1..Len(fields[i].attrs) : IsValidEach(fields[i].attrs[k])
        /\ ~IsVecShape(fields[i].ty)
        /\ ~IsOptionShape(fields[i].ty))
       => /\ ~PanickedAt(i)
          /\ pc = "emitted" =>
               \E d \in 1..Len(Diagnostics), k \in 1..Len(fields[i].attrs) :
                  Diagnostics[d].param = fields[i].attrs[k]

\* C6: when the first builder attribute the parser decides on has the key
\* each and a value that is not a string literal, the field gets a diagnostic
\* anchored at that attribute; it is not treated as having no each attribute
\* and no later attribute is honoured.
C6_NonLiteralEachIsDiagnostic ==
    \A i \in 1..NFields :
       \A k \in 1..Len(fields[i].attrs) :
          (/\ IsNonLiteralEach(fields[i].attrs[k])
           /\ \A l \in 1..(k - 1) : ~IsBuilderNameValue(fields[i].attrs[l]))
          => /\ is_none(annotated_fields[i].one_by_one_setter)
             /\ is_some(annotated_fields[i].parsed)
             /\ annotated_fields[i].parsed = Some([error |-> ExpectedEach,
                                                   span |-> fields[i].attrs[k]])

\* C7: for a Collection field f with element setter e, the generated setters
\* of the field are the element-wise setter named e and, if and only if e
\* differs from f, a bulk setter named f taking the declared type; no two of
\* them share a name.
C7_CollectionSetters ==
    pc = "emitted" =>
      \A i \in 1..NFields :
         LET af == annotated_fields[i]
             S == SettersOfField(af.name)
             e == af.one_by_one_setter[1]
         IN IsCollection(af) =>
              /\ Cardinality({k \in 1..Len(S) : S[k].fn = e /\ S[k].body = "push"}) = 1
              /\ (\E k \in 1..Len(S) :
                     S[k].fn = af.name /\ S[k].body = "set_some" /\ S[k].param = af.ty)
                 <=> e /= af.name
              /\ \A k, l \in 1..Len(S) : S[k].fn = S[l].fn => k = l
              /\ Len(S) = IF e /= af.name THEN 2 ELSE 1

\* one Collection field whose element setter is named like the field and one
\* whose element setter has another name
C7_Witness ==
    /\ pc = "emitted" /\ NFields = 2
    /\ IsCollection(annotated_fields[1]) /\ IsCollection(annotated_fields[2])
    /\ annotated_fields[1].one_by_one_setter = Some(annotated_fields[1].name)
    /\ annotated_fields[2].one_by_one_setter /= Some(annotated_fields[2].name)
    /\ Len(res.setters) = 3

\* C9: a field declared Option<T> that also carries a valid each attribute is
\* Optional only: its slot starts empty and its only setter is the Optional
\* setter taking T.
C9_OptionBeforeEach ==
    pc = "emitted" =>
      \A i \in 1..NFields :
         (IsOptionShape(fields[i].ty) /\ CarriesValidEach(fields[i]) /\ Len(Diagnostics) = 0)
         => /\ res.init[i].init = "None"
            /\ SettersOfField(fields[i].name) =
                 <<SetterFn(fields[i].name, fields[i].name,
                            TypeOfArg(fields[i].ty.gargs[1]), "set_some_some")>>

====
